---- MODULE Spec2Model ----
(***************************************************************************)
(* A model of uev3dev.motors.TachoMotor (src/src/uev3dev/motors.py): one   *)
(* motor object driving the attribute files of one tacho-motor device.     *)
(*                                                                         *)
(* Floats are modelled exactly as rationals with a fixed denominator:      *)
(*   rotations = h / RotDen rotations, time = t / (1000 * TimeDen) seconds *)
(* so that Python's int(), truncation toward zero, is computed and not     *)
(* assumed.  Speeds are integers (degrees/second).                         *)
(***************************************************************************)
EXTENDS Integers, Sequences, FiniteSets, TLC

\* ------------------------------------------------------------- bounds
MaxMaxSpeed == 2
\* speeds offered are the multiples of 360/SpeedDen deg/s up to MaxSpeedK steps
SpeedDen == 2
MaxSpeedK == 2
\* rotations offered are h/RotDen for h in -MaxRotK..MaxRotK
RotDen == 2
MaxRotK == 1
\* times offered are t/TimeDen milliseconds for t in -MaxTimeK..MaxTimeK
TimeDen == 2
MaxTimeK == 2
\* duty cycles offered reach this far past the limits
DutyMargin == 1

\* ------------------------------------------------- program constants
DegPerRot == 360
MsPerSec == 1000
MinDutyCycle == -100
MaxDutyCycle == 100

COAST == "coast"
BRAKE == "brake"
HOLD == "hold"
StopAction == {COAST, BRAKE, HOLD}

EV3_LARGE == "lego-ev3-l-motor"
EV3_MEDIUM == "lego-ev3-m-motor"

\* ------------------------------------------------------ input domains
Speeds == {k * (DegPerRot \div SpeedDen) : k \in -MaxSpeedK..MaxSpeedK}
Rotations == -MaxRotK..MaxRotK
Times == -MaxTimeK..MaxTimeK
DutyCycles == (MinDutyCycle - DutyMargin)..(MinDutyCycle) \cup
              (MaxDutyCycle)..(MaxDutyCycle + DutyMargin)
\* the counts per rotation a device may report
CountsPerRot == {1, 2}
\* the sets of stop actions a driver may report
StopActionSets == {{COAST, HOLD}}
\* a port is given by its letter or by its full name
OutPrefix == "ev3-ports:out"
Ports == {<<"A">>, <<OutPrefix, "A">>, <<"B">>}
Drivers == {EV3_LARGE, EV3_MEDIUM}
\* the flags of the state attribute the code looks at
DeviceStates == SUBSET {"running", "holding"}
NoRead == {"unread"}

VARIABLES
    pc,             \* where the single thread is: new, notfound, idle, sleeping, polling
    attached,       \* the device node present: <<port name, driver>>, or <<>>
    dev_count_per_rot, dev_max_speed, dev_stop_actions,   \* read-only attributes
    count_per_rot, max_speed, stop_actions,               \* values cached by __init__
    speed_sp, position_sp, time_sp, duty_cycle_sp, stop_action,  \* r+ attributes
    trace,          \* the attribute accesses of the current (or last) call, in order
    first_command,  \* the first value ever written to the command attribute
    call,           \* the current (or last) call: its name and the arguments it
                    \* handed to a setter or branched on before it returned or raised
    result,         \* none, running, ok, ValueError (a setter's range check),
                    \* SleepError, MotorNotFoundError
    slept,          \* the argument of utime.sleep in the current (or last) call
    last_read       \* the last value of the state attribute read by the call

attrs == <<speed_sp, position_sp, time_sp, duty_cycle_sp, stop_action>>
cache == <<count_per_rot, max_speed, stop_actions>>
device == <<attached, dev_count_per_rot, dev_max_speed, dev_stop_actions>>
vars == <<pc, device, cache, attrs, trace, first_command, call, result, slept, last_read>>

\* ----------------------------------------------------------- helpers
\* mutant: floor division in place of int()
PyInt_floor(num, den) == num \div den

\* Python int() of the rational num/den, den > 0: truncation toward zero
PyInt(num, den) ==
    IF num >= 0 THEN num \div den ELSE -((-num) \div den)

Write(attr) == <<"write", attr>>
Read(attr) == <<"read", attr>>
Command(c) == <<"command", c>>
Sleep == <<"sleep", "time">>

NoArgs == [op |-> "", port |-> <<>>, driver |-> "", speed |-> 0, rotations |-> 0,
           time |-> 0, stop_action |-> "", wait |-> FALSE, duty_cycle |-> 0]

\* The attribute files as one call sees them: the call works on this record
\* and the action stores it.  raised: a ValueError has propagated.
Begin ==
    [speed_sp |-> speed_sp, position_sp |-> position_sp, time_sp |-> time_sp,
     duty_cycle_sp |-> duty_cycle_sp, stop_action |-> stop_action,
     trace |-> <<>>, first_command |-> first_command, raised |-> FALSE]

Store(m) ==
    /\ speed_sp' = m.speed_sp
    /\ position_sp' = m.position_sp
    /\ time_sp' = m.time_sp
    /\ duty_cycle_sp' = m.duty_cycle_sp
    /\ stop_action' = m.stop_action
    /\ trace' = m.trace
    /\ first_command' = m.first_command

\* self._command.write(c)
command_write(m, c) ==
    IF m.raised THEN m
    ELSE [m EXCEPT !.trace = Append(@, Command(c)),
                   !.first_command = IF @ = "none" THEN c ELSE @]

\* mutant: the lower limit is not checked
set_duty_cycle_sp_no_lower(m, duty_cycle) ==
    IF m.raised THEN m
    ELSE IF duty_cycle > MaxDutyCycle
         THEN [m EXCEPT !.raised = TRUE]
         ELSE [m EXCEPT !.duty_cycle_sp = duty_cycle,
                        !.trace = Append(@, Write("duty_cycle_sp"))]

set_duty_cycle_sp(m, duty_cycle) ==
    IF m.raised THEN m
    ELSE IF duty_cycle < MinDutyCycle \/ duty_cycle > MaxDutyCycle
         THEN [m EXCEPT !.raised = TRUE]
         ELSE [m EXCEPT !.duty_cycle_sp = duty_cycle,
                        !.trace = Append(@, Write("duty_cycle_sp"))]

\* degrees/second to tacho counts per second
SpeedCounts(speed) == PyInt(speed * count_per_rot, DegPerRot)

\* mutant: the upper limit is not checked
set_speed_sp_no_upper(m, speed) ==
    IF m.raised THEN m
    ELSE LET sp == SpeedCounts(speed)
         IN IF sp < -max_speed
            THEN [m EXCEPT !.raised = TRUE]
            ELSE [m EXCEPT !.speed_sp = sp,
                           !.trace = Append(@, Write("speed_sp"))]

set_speed_sp(m, speed) ==
    IF m.raised THEN m
    ELSE LET sp == SpeedCounts(speed)
         IN IF sp < -max_speed \/ sp > max_speed
            THEN [m EXCEPT !.raised = TRUE]
            ELSE [m EXCEPT !.speed_sp = sp,
                           !.trace = Append(@, Write("speed_sp"))]

\* rotations (h/RotDen) to tacho counts
PositionCounts(h) == PyInt(count_per_rot * h, RotDen)

set_position_sp(m, h) ==
    IF m.raised THEN m
    ELSE [m EXCEPT !.position_sp = PositionCounts(h),
                   !.trace = Append(@, Write("position_sp"))]

\* mutant: the time is written unchecked
set_time_sp_no_check(m, time) ==
    IF m.raised THEN m
    ELSE [m EXCEPT !.time_sp = time,
                   !.trace = Append(@, Write("time_sp"))]

set_time_sp(m, time) ==
    IF m.raised THEN m
    ELSE IF time < 0
         THEN [m EXCEPT !.raised = TRUE]
         ELSE [m EXCEPT !.time_sp = time,
                        !.trace = Append(@, Write("time_sp"))]

\* mutant: the action is checked against the StopAction enum, not the device's set
set_stop_action_enum(m, action) ==
    IF m.raised THEN m
    ELSE IF action \notin StopAction
         THEN [m EXCEPT !.raised = TRUE]
         ELSE [m EXCEPT !.stop_action = action,
                        !.trace = Append(@, Write("stop_action"))]

\* mutant: the action is written before it is checked
set_stop_action_write_first(m, action) ==
    IF m.raised THEN m
    ELSE [m EXCEPT !.stop_action = action,
                   !.trace = Append(@, Write("stop_action")),
                   !.raised = action \notin stop_actions]

set_stop_action(m, action) ==
    IF m.raised THEN m
    ELSE IF action \notin stop_actions
         THEN [m EXCEPT !.raised = TRUE]
         ELSE [m EXCEPT !.stop_action = action,
                        !.trace = Append(@, Write("stop_action"))]

\* int(time * 1000) for time = t / (MsPerSec * TimeDen) seconds
Millis(t) == PyInt(t * MsPerSec, MsPerSec * TimeDen)

\* nominal_speed as the fraction <<numerator, denominator>> the code divides
nominal_speed == <<count_per_rot * DegPerRot, max_speed>>

\* ------------------------------------------------------------- Init
Init ==
    /\ pc = "new"
    /\ attached \in {<<>>, <<(<<OutPrefix, "A">>), EV3_LARGE>>}
    /\ dev_count_per_rot \in CountsPerRot
    /\ dev_max_speed \in 1..MaxMaxSpeed
    /\ dev_stop_actions \in StopActionSets
    /\ count_per_rot = 0 /\ max_speed = 0 /\ stop_actions = {}
    /\ speed_sp = 0 /\ position_sp = 0 /\ time_sp = 0 /\ duty_cycle_sp = 0
    /\ stop_action = COAST
    /\ trace = <<>>
    /\ first_command = "none"
    /\ call = NoArgs
    /\ result = "none"
    /\ slept = 0
    /\ last_read = NoRead

\* ---------------------------------------------------------- actions
\* sysfs.find_node('tacho-motor', port, driver)
find_node(port, driver) == attached # <<>> /\ attached = <<port, driver>>

\* the device's reaction to the reset command: every parameter attribute
\* returns to its default
reset(m) ==
    [m EXCEPT !.speed_sp = 0, !.position_sp = 0, !.time_sp = 0,
              !.duty_cycle_sp = 0, !.stop_action = COAST]

\* a one-letter port is an output port of the brick
PortName(port) == IF Len(port) = 1 THEN <<OutPrefix>> \o port ELSE port

\* mutant: the missing node is not noticed
construct_no_check(port, driver) ==
    /\ pc \in {"new", "notfound"}
    /\ call' = [NoArgs EXCEPT !.op = "__init__", !.port = port, !.driver = driver]
    /\ slept' = 0 /\ last_read' = NoRead
    /\ UNCHANGED device
    /\ pc' = "idle"
    /\ result' = "ok"
    /\ count_per_rot' = dev_count_per_rot
    /\ max_speed' = dev_max_speed
    /\ stop_actions' = dev_stop_actions
    /\ LET m0 == [Begin EXCEPT !.trace =
                    <<Read("commands"), Read("count_per_rot"),
                      Read("driver_name"), Read("max_speed"),
                      Read("stop_actions")>>]
       IN Store(reset(command_write(m0, "reset")))

construct(port, driver) ==
    /\ pc \in {"new", "notfound"}
    /\ call' = [NoArgs EXCEPT !.op = "__init__", !.port = port, !.driver = driver]
    /\ slept' = 0 /\ last_read' = NoRead
    /\ UNCHANGED device
    /\ IF ~find_node(PortName(port), driver)
       THEN /\ pc' = "notfound"
            /\ result' = "MotorNotFoundError"
            /\ Store(Begin)
            /\ UNCHANGED cache
       ELSE /\ pc' = "idle"
            /\ result' = "ok"
            /\ count_per_rot' = dev_count_per_rot
            /\ max_speed' = dev_max_speed
            /\ stop_actions' = dev_stop_actions
            /\ LET m0 == [Begin EXCEPT !.trace =
                            <<Read("commands"), Read("count_per_rot"),
                              Read("driver_name"), Read("max_speed"),
                              Read("stop_actions")>>]
               IN Store(reset(command_write(m0, "reset")))

Finish(m) ==
    /\ Store(m)
    /\ result' = IF m.raised THEN "ValueError" ELSE "ok"
    /\ pc' = "idle"
    /\ UNCHANGED <<device, cache>>

run(speed) ==
    /\ pc = "idle"
    /\ call' = [NoArgs EXCEPT !.op = "run", !.speed = speed]
    /\ slept' = 0 /\ last_read' = NoRead
    /\ LET m1 == set_speed_sp(Begin, speed)
           m2 == command_write(m1, "run-forever")
       IN Finish(m2)

\* mutant: the holding flag is not looked at
PollDone_running_only(state) == "running" \notin state

\* whether the polling loop ends on this value of the state attribute
PollDone(state) == "running" \notin state \/ "holding" \in state

\* The call raises: what it wrote stays written, the exception reaches the caller.
Raise(m, args) ==
    /\ call' = args
    /\ slept' = 0 /\ last_read' = NoRead
    /\ Finish(m)

\* An argument that a raising call never reaches plays no part in it, so the
\* arguments are drawn in the order the code uses them.
run_for_rotations ==
    /\ pc = "idle"
    /\ \E speed \in Speeds : \E m1 \in {set_speed_sp(Begin, speed)} :
       LET args1 == [NoArgs EXCEPT !.op = "run_for_rotations", !.speed = speed]
       IN IF m1.raised THEN Raise(m1, args1)
          ELSE \E action \in StopAction : \E m2 \in {set_stop_action(m1, action)} :
               LET args2 == [args1 EXCEPT !.stop_action = action]
               IN IF m2.raised THEN Raise(m2, args2)
                  ELSE \E rotations \in Rotations, wait \in BOOLEAN :
                       LET r == IF speed < 0 THEN rotations * (-1) ELSE rotations
                           m4 == command_write(set_position_sp(m2, r), "run-to-rel-pos")
                       IN /\ call' = [args2 EXCEPT !.rotations = rotations, !.wait = wait]
                          /\ slept' = 0 /\ last_read' = NoRead
                          /\ IF wait
                             THEN /\ Store(m4)
                                  /\ result' = "running"
                                  /\ pc' = "polling"
                                  /\ UNCHANGED <<device, cache>>
                             ELSE Finish(m4)

\* one turn of the loop: read the state attribute, leave when done
poll(state) ==
    /\ pc = "polling"
    /\ last_read' = state
    /\ trace' = IF trace[Len(trace)] = Read("state") THEN trace
                ELSE Append(trace, Read("state"))
    /\ IF PollDone(state)
       THEN pc' = "idle" /\ result' = "ok"
       ELSE pc' = "polling" /\ result' = "running"
    /\ UNCHANGED <<device, cache, attrs, first_command, call, slept>>

run_for_time ==
    /\ pc = "idle"
    /\ \E speed \in Speeds : \E m1 \in {set_speed_sp(Begin, speed)} :
       LET args1 == [NoArgs EXCEPT !.op = "run_for_time", !.speed = speed]
       IN IF m1.raised THEN Raise(m1, args1)
          ELSE \E time \in Times : \E m2 \in {set_time_sp(m1, Millis(time))} :
               LET args2 == [args1 EXCEPT !.time = time]
               IN IF m2.raised THEN Raise(m2, args2)
                  ELSE \E action \in StopAction : \E m3 \in {set_stop_action(m2, action)} :
                       LET args3 == [args2 EXCEPT !.stop_action = action]
                       IN IF m3.raised THEN Raise(m3, args3)
                          ELSE \E wait \in BOOLEAN :
                               /\ call' = [args3 EXCEPT !.wait = wait]
                               /\ last_read' = NoRead
                               /\ IF wait
                                  THEN /\ Store([command_write(m3, "run-forever")
                                                   EXCEPT !.trace = Append(@, Sleep)])
                                       /\ slept' = time
                                       /\ result' = "running"
                                       /\ pc' = "sleeping"
                                       /\ UNCHANGED <<device, cache>>
                                  ELSE /\ slept' = 0
                                       /\ Finish(command_write(m3, "run-timed"))

\* utime.sleep returns and the call goes on.  What sleep does with a negative
\* time depends on the build: it may return at once (this action) or raise
\* (sleep_raises).
wake ==
    /\ pc = "sleeping"
    /\ LET m == command_write([Begin EXCEPT !.trace = trace], "stop")
       IN Finish(m)
    /\ UNCHANGED <<call, slept, last_read>>

\* utime.sleep rejects a negative time (ValueError from CPython's time, which
\* the module falls back to; OSError from the select of MicroPython's unix
\* utime) and the exception leaves run_for_time before it writes stop.
sleep_raises ==
    /\ pc = "sleeping"
    /\ slept < 0
    /\ pc' = "idle"
    /\ result' = "SleepError"
    /\ UNCHANGED <<device, cache, attrs, trace, first_command, call, slept, last_read>>

run_unregulated(duty_cycle) ==
    /\ pc = "idle"
    /\ call' = [NoArgs EXCEPT !.op = "run_unregulated", !.duty_cycle = duty_cycle]
    /\ slept' = 0 /\ last_read' = NoRead
    /\ LET m1 == set_duty_cycle_sp(Begin, duty_cycle)
           m2 == command_write(m1, "run-direct")
       IN Finish(m2)

stop(action) ==
    /\ pc = "idle"
    /\ call' = [NoArgs EXCEPT !.op = "stop", !.stop_action = action]
    /\ slept' = 0 /\ last_read' = NoRead
    /\ LET m1 == set_stop_action(Begin, action)
           m2 == command_write(m1, "stop")
       IN Finish(m2)

Next ==
    \/ \E port \in Ports, driver \in Drivers : construct(port, driver)
    \/ \E speed \in Speeds : run(speed)
    \/ run_for_rotations
    \/ \E state \in DeviceStates : poll(state)
    \/ run_for_time
    \/ wake
    \/ sleep_raises
    \/ \E duty_cycle \in DutyCycles : run_unregulated(duty_cycle)
    \/ \E action \in StopAction : stop(action)

Spec == Init /\ [][Next]_vars

\* The device reports that the move is over: running has cleared or holding is set.
DeviceReportsStopped(state) == "running" \notin state \/ "holding" \in state

\* The polling loop does not look at the motor's parameters: the liveness
\* check takes one motor, every operation and every argument.
InitLive == Init /\ dev_count_per_rot = 2 /\ dev_max_speed = 1

\* The single thread keeps turning the polling loop, and the device does
\* eventually report that it stopped.
LiveSpec ==
    /\ InitLive /\ [][Next]_vars
    /\ WF_vars(\E state \in DeviceStates :
                 DeviceReportsStopped(state) /\ poll(state))

\* ------------------------------------------------------------ claims
Constructed == pc \in {"idle", "sleeping", "polling"}
Abs(x) == IF x < 0 THEN -x ELSE x
IsCommand(e) == e[1] = "command"
Commands(tr) == SelectSeq(tr, IsCommand)
Wrote(tr, attr) == \E i \in 1..Len(tr) : tr[i] = Write(attr)
NodeExists(port, driver) == attached = <<PortName(port), driver>>

\* C1: once the motor is constructed, whatever calls were made and whether
\* they returned or raised, speed_sp lies within [-max_speed, max_speed].
C1_SpeedSetpointWithinMaxSpeed ==
    Constructed => (-max_speed <= speed_sp /\ speed_sp <= max_speed)

\* a run was rejected while speed_sp holds the largest accepted value
C1_Witness ==
    /\ call.op = "run" /\ result = "ValueError"
    /\ speed_sp = max_speed /\ SpeedCounts(call.speed) > max_speed

WithinNominalSpeed(speed) == Abs(speed) * nominal_speed[2] <= nominal_speed[1]

\* C2: run(speed) with |speed| <= nominal_speed does not raise and writes
\* the converted setpoint, which lies within [-max_speed, max_speed].
C2_NominalSpeedRangeAccepted ==
    (call.op = "run" /\ WithinNominalSpeed(call.speed)) =>
        /\ result = "ok"
        /\ speed_sp = SpeedCounts(call.speed)
        /\ -max_speed <= speed_sp /\ speed_sp <= max_speed

\* C3: run_for_rotations writes int(count_per_rot * r) to position_sp for a
\* speed >= 0 and exactly its negation for a speed < 0.
C3_NegativeSpeedNegatesPosition ==
    (call.op = "run_for_rotations" /\ result \in {"ok", "running"}) =>
        position_sp = IF call.speed < 0 THEN -PositionCounts(call.rotations)
                      ELSE PositionCounts(call.rotations)

\* a negative speed turned a positive rotation into a negative setpoint
C3_Witness ==
    /\ call.op = "run_for_rotations" /\ result = "ok"
    /\ call.speed < 0 /\ call.rotations > 0 /\ position_sp < 0

\* C4: run_unregulated outside [-100, 100] raises, leaves duty_cycle_sp alone
\* and writes no command; inside it writes the value and then run-direct; so
\* duty_cycle_sp always lies within [-100, 100].
C4_DutyCycleValidated ==
    [][/\ -100 <= duty_cycle_sp' /\ duty_cycle_sp' <= 100
       /\ call'.op = "run_unregulated" =>
            IF call'.duty_cycle < -100 \/ call'.duty_cycle > 100
            THEN /\ result' = "ValueError"
                 /\ duty_cycle_sp' = duty_cycle_sp
                 /\ trace' = <<>>
            ELSE /\ result' = "ok"
                 /\ duty_cycle_sp' = call'.duty_cycle
                 /\ trace' = <<Write("duty_cycle_sp"), Command("run-direct")>>]_vars

\* a duty cycle below -100 was rejected after a duty cycle of 100 was set
C4_Witness ==
    /\ call.op = "run_unregulated" /\ result = "ValueError"
    /\ call.duty_cycle < -100 /\ duty_cycle_sp = 100

\* C5: stop, run_for_rotations and run_for_time given a stop action outside
\* the set the device reported raise, leave stop_action alone and write no
\* command; every value written to stop_action is in that set.
C5_StopActionValidated ==
    [][/\ Wrote(trace', "stop_action") => stop_action' \in dev_stop_actions
       /\ ( /\ call'.op \in {"stop", "run_for_rotations", "run_for_time"}
            /\ call'.stop_action # ""
            /\ call'.stop_action \notin dev_stop_actions ) =>
              /\ result' = "ValueError"
              /\ stop_action' = stop_action
              /\ Commands(trace') = <<>>]_vars

\* run_for_time came as far as the stop action and rejected it
C5_Witness ==
    /\ call.op = "run_for_time" /\ result = "ValueError"
    /\ call.stop_action = BRAKE /\ stop_action = HOLD

\* C6: construction fails with MotorNotFoundError before any attribute access
\* when no node matches; otherwise it writes exactly one command, reset, which
\* is the first command the motor ever gets.
C6_ConstructResetsFirst ==
    /\ first_command \in {"none", "reset"}
    /\ Constructed => first_command = "reset"
    /\ call.op = "__init__" =>
         IF NodeExists(call.port, call.driver)
         THEN /\ result = "ok"
              /\ Commands(trace) = <<Command("reset")>>
              /\ trace[Len(trace)] = Command("reset")
         ELSE /\ result = "MotorNotFoundError"
              /\ trace = <<>>
              /\ first_command = "none"

\* a device is attached, and construction for another port or driver failed
C6_Witness ==
    pc = "notfound" /\ attached # <<>> /\ result = "MotorNotFoundError"

RunForTimeSetpoints == <<Write("speed_sp"), Write("time_sp"), Write("stop_action")>>

\* C7: a run_for_time whose arguments validate writes speed_sp, time_sp and
\* stop_action, then with wait run-forever, the sleep of the requested time
\* and stop; without wait only run-timed.
C7_RunForTimeOrder ==
    (call.op = "run_for_time" /\ result # "ValueError") =>
        /\ speed_sp = SpeedCounts(call.speed)
        /\ stop_action = call.stop_action
        /\ IF call.wait
           THEN /\ slept = call.time
                /\ \/ /\ pc = "sleeping" /\ result = "running"
                      /\ trace = RunForTimeSetpoints \o
                                   <<Command("run-forever"), Sleep>>
                   \/ /\ pc = "idle" /\ result = "ok"
                      /\ trace = RunForTimeSetpoints \o
                                   <<Command("run-forever"), Sleep, Command("stop")>>
           ELSE /\ pc = "idle" /\ result = "ok"
                /\ trace = RunForTimeSetpoints \o <<Command("run-timed")>>

\* C8: time_sp is never negative: a run_for_time whose int(time * 1000) is
\* negative raises, leaves time_sp alone and writes no command; one that
\* does not raise leaves time_sp = int(time * 1000).
C8_TimeSetpointNonNegative ==
    [][/\ time_sp' >= 0
       /\ call'.op = "run_for_time" =>
            /\ Millis(call'.time) < 0 =>
                 /\ result' = "ValueError"
                 /\ time_sp' = time_sp
                 /\ Commands(trace') = <<>>
            /\ result' # "ValueError" => time_sp' = Millis(call'.time)]_vars

\* a negative time was rejected and the earlier setpoint is still there
C8_Witness ==
    /\ call.op = "run_for_time" /\ result = "ValueError"
    /\ Millis(call.time) < 0 /\ time_sp > 0

RunForRotationsWrites ==
    <<Write("speed_sp"), Write("stop_action"), Write("position_sp"),
      Command("run-to-rel-pos")>>

\* C9: with wait, run_for_rotations writes run-to-rel-pos and returns exactly
\* when a read of state shows running cleared or holding set, writing nothing
\* while it polls, and it does return once the device reports so; without
\* wait it returns after run-to-rel-pos without reading state.
C9_WaitPollsUntilStopped ==
    /\ [][/\ pc = "polling" =>
               /\ attrs' = attrs /\ call' = call /\ first_command' = first_command
               /\ Commands(trace') = Commands(trace)
          /\ pc' = "polling" =>
               /\ call'.op = "run_for_rotations" /\ call'.wait
               /\ last_read' = NoRead \/ ~DeviceReportsStopped(last_read')
          /\ (call'.op = "run_for_rotations" /\ result' = "ok") =>
               IF call'.wait
               THEN /\ last_read' # NoRead /\ DeviceReportsStopped(last_read')
                    /\ trace' = RunForRotationsWrites \o <<Read("state")>>
               ELSE /\ last_read' = NoRead
                    /\ trace' = RunForRotationsWrites]_vars
    /\ (pc = "polling" ~> pc = "idle")

\* a waiting call returned on a state that still shows running, with holding
C9_Witness ==
    /\ call.op = "run_for_rotations" /\ call.wait /\ result = "ok"
    /\ last_read = {"running", "holding"}

\* C10 as stated: a call that raises leaves every attribute as it was.
C10_RaisingCallWritesNothing ==
    [][result' = "ValueError" => (attrs' = attrs /\ trace' = <<>>)]_vars

\* C10 as amended: a call that raises writes no command and leaves
\* position_sp, duty_cycle_sp and stop_action as they were; run,
\* run_unregulated and stop leave every attribute as it was; run_for_rotations
\* may have written speed_sp, and run_for_time speed_sp and then time_sp,
\* before the argument that is rejected.
C10_RaisingCallWritesOnlyEarlierSetpoints ==
    [][result' = "ValueError" =>
         /\ Commands(trace') = <<>> /\ first_command' = first_command
         /\ position_sp' = position_sp
         /\ duty_cycle_sp' = duty_cycle_sp
         /\ stop_action' = stop_action
         /\ ~Wrote(trace', "speed_sp") => speed_sp' = speed_sp
         /\ ~Wrote(trace', "time_sp") => time_sp' = time_sp
         /\ call'.op \in {"run", "run_unregulated", "stop"} =>
              (attrs' = attrs /\ trace' = <<>>)
         /\ call'.op = "run_for_rotations" =>
              /\ time_sp' = time_sp
              /\ trace' \in {<<>>, <<Write("speed_sp")>>}
         /\ call'.op = "run_for_time" =>
              trace' \in {<<>>, <<Write("speed_sp")>>,
                          <<Write("speed_sp"), Write("time_sp")>>}]_vars

\* run_for_rotations rejected the stop action after it had changed speed_sp
C10_Witness ==
    /\ call.op = "run_for_rotations" /\ result = "ValueError"
    /\ trace = <<Write("speed_sp")>> /\ speed_sp # 0

====
